---------------------------- MODULE Spec2Model ----------------------------
(* A model of generate-address-list.py: the extraction of sanctioned       *)
(* digital-currency addresses from the OFAC advanced XML list.             *)
(*                                                                         *)
(* Text is modelled as a sequence of character codes (code points), so     *)
(* that ordering, joining, quoting and escaping are computed on the        *)
(* characters and not assumed.  An element whose text is None or "" is the *)
(* empty sequence: Python treats both as false.                            *)
EXTENDS Integers, Sequences, FiniteSets, TLC

VARIABLES
    pc,            \* position of main: the next step to run
    argv,          \* the asset symbols given on the command line
    args,          \* the parsed arguments (assets, format)
    sdn,           \* the input file: "missing", "malformed" or "ok"
    document,      \* the XML document stored in the input file
    outpath,       \* state of the output directory path
    files,         \* output file name -> its content, or NoFile
    root,          \* the parsed document, or None before parsing
    i,             \* index of the asset the loop is at
    address_id,    \* result of get_address_id for the current asset
    address_data,  \* the record list of the current asset
    stderr,        \* messages printed to the error stream
    stdout,        \* messages printed to the output stream
    exit_status,   \* None while running, then the process's exit status
    written        \* per loop iteration, the files that iteration wrote

vars == <<pc, argv, args, sdn, document, outpath, files, root, i,
          address_id, address_data, stderr, stdout, exit_status, written>>

-----------------------------------------------------------------------------
(* Bounds of the model.                                                    *)

MaxParties  == 3   \* DistinctParty elements of a document
MaxFeatures == 2   \* features of one party
MaxVersions == 2   \* VersionDetail elements of one feature
MaxAliases  == 2   \* Alias elements of one party
MaxParts    == 2   \* NamePartValue elements of one alias

-----------------------------------------------------------------------------
(* Characters and text.                                                    *)

SPACE     == 32    \* " ".join(parts)
SEMICOLON == 59    \* ";".join(...) and csv.writer(out, delimiter=';')

None == "None"

\* "Unknown"
Unknown == <<85, 110, 107, 110, 111, 119, 110>>

SeqsUpTo(S, n) == UNION {[1..k -> S] : k \in 0..n}

\* sep.join(strs) for a sequence of texts
RECURSIVE Join(_, _)
Join(strs, sep) ==
    IF strs = <<>> THEN <<>>
    ELSE IF Len(strs) = 1 THEN strs[1]
    ELSE strs[1] \o <<sep>> \o Join(Tail(strs), sep)

\* list(dict.fromkeys(names)): the distinct elements, in first-seen order
RECURSIVE FromKeys(_)
FromKeys(names) ==
    IF names = <<>> THEN <<>>
    ELSE LET init == FromKeys(SubSeq(names, 1, Len(names) - 1))
             last == names[Len(names)]
         IN  IF \E k \in 1..Len(init) : init[k] = last
             THEN init ELSE Append(init, last)

\* concatenation of a sequence of sequences
RECURSIVE Flatten(_)
Flatten(ss) == IF ss = <<>> THEN <<>> ELSE ss[1] \o Flatten(Tail(ss))

-----------------------------------------------------------------------------
(* The document.  A party has aliases (each a sequence of name-part texts) *)
(* and features (each tagged with a FeatureTypeID and holding the texts of *)
(* its VersionDetail elements).                                            *)

FeatureTypeIDs == {"344", "345"}

\* texts of VersionDetail elements: "", " ", "a"
VersionTexts == {<<>>, <<32>>, <<97>>}

\* texts of NamePartValue elements: "", "J", "Unknown"
NamePartTexts == {<<>>, <<74>>, Unknown}

Features(maxV) ==
    [FeatureTypeID : FeatureTypeIDs, versions : SeqsUpTo(VersionTexts, maxV)]

Aliases == SeqsUpTo(NamePartTexts, MaxParts)

\* the aliases of a party with the one alias "J"
AliasesJ == << << <<74>> >> >>

-----------------------------------------------------------------------------
(* get_entity_name                                                         *)

\* the assembled name of one alias, or <<>> when it has no non-empty part
AliasName(alias) ==
    LET parts == SelectSeq(alias, LAMBDA text : text # <<>>)
    IN  Join(parts, SPACE)

\* a faulty variant: duplicates are not removed
get_entity_name_nodedup(party_element) ==
    LET names == SelectSeq([k \in 1..Len(party_element.aliases) |->
                               AliasName(party_element.aliases[k])],
                           LAMBDA name : name # <<>>)
    IN  IF names = <<>> THEN Unknown ELSE Join(names, SEMICOLON)

get_entity_name(party_element) ==
    LET names == SelectSeq([k \in 1..Len(party_element.aliases) |->
                               AliasName(party_element.aliases[k])],
                           LAMBDA name : name # <<>>)
    IN  IF names = <<>> THEN Unknown
        ELSE Join(FromKeys(names), SEMICOLON)

-----------------------------------------------------------------------------
(* get_sanctioned_addresses                                                *)

\* the records of one feature: one for every VersionDetail with text
FeatureRecords(feature, entity_name) ==
    LET texts == SelectSeq(feature.versions, LAMBDA text : text # <<>>)
    IN  [k \in 1..Len(texts) |-> [address |-> texts[k], name |-> entity_name]]

\* a faulty variant: the features of every type are taken
PartyRecords_alltypes(party, id) ==
    IF party.features = <<>> THEN <<>>
    ELSE LET entity_name == get_entity_name(party)
         IN  Flatten([k \in 1..Len(party.features) |->
                        FeatureRecords(party.features[k], entity_name)])

\* the records of one party
PartyRecords(party, id) ==
    LET features == SelectSeq(party.features,
                              LAMBDA f : f.FeatureTypeID = id)
    IN  IF features = <<>> THEN <<>>
        ELSE LET entity_name == get_entity_name(party)
             IN  Flatten([k \in 1..Len(features) |->
                            FeatureRecords(features[k], entity_name)])

get_sanctioned_addresses(doc, id) ==
    Flatten([p \in 1..Len(doc.parties) |-> PartyRecords(doc.parties[p], id)])

-----------------------------------------------------------------------------
(* get_address_id                                                          *)

ALL_ASSETS == <<"XBT", "ETH", "XMR", "LTC", "ZEC", "DASH", "BTG", "ETC",
                "BSV", "BCH", "XVG", "USDT", "XRP", "ARB", "BSC", "USDC",
                "TRX">>

NumAssets == 2     \* the model keeps the first NumAssets symbols of the list

POSSIBLE_ASSETS == SubSeq(ALL_ASSETS, 1, NumAssets)

OUTPUT_FORMATS == <<"TXT", "JSON">>

feature_type_text(asset) == "Digital Currency Address - " \o asset

\* an entry of the reference table without an ID attribute
NoID == "NoID"

\* the first entry whose text is the asset's feature type text; no entry
\* raises LookupError, an entry without ID raises KeyError
get_address_id(doc, asset) ==
    LET query == feature_type_text(asset)
        hits  == SelectSeq(doc.refs, LAMBDA e : e.text = query)
    IN  IF hits = <<>>
        THEN [raised |-> "LookupError", ID |-> None]
        ELSE IF hits[1].ID = NoID
        THEN [raised |-> "KeyError", ID |-> None]
        ELSE [raised |-> None, ID |-> hits[1].ID]

-----------------------------------------------------------------------------
(* Deduplication and sorting (main)                                        *)

\* Python's str <: code point order, a proper prefix first
RECURSIVE StrLess(_, _)
StrLess(s, t) ==
    IF t = <<>> THEN FALSE
    ELSE IF s = <<>> THEN TRUE
    ELSE IF s[1] # t[1] THEN s[1] < t[1]
    ELSE StrLess(Tail(s), Tail(t))

\* Python's tuple <: on (addr, name) items
ItemLess(x, y) ==
    \/ StrLess(x.address, y.address)
    \/ x.address = y.address /\ StrLess(x.name, y.name)

\* a faulty variant: a later record of an address replaces its name
RECURSIVE SeenAddresses_lastwins(_)
SeenAddresses_lastwins(data) ==
    IF data = <<>> THEN <<>>
    ELSE LET seen == SeenAddresses_lastwins(SubSeq(data, 1, Len(data) - 1))
             item == data[Len(data)]
         IN  IF \E k \in 1..Len(seen) : seen[k].address = item.address
             THEN [k \in 1..Len(seen) |->
                     IF seen[k].address = item.address THEN item ELSE seen[k]]
             ELSE Append(seen, item)

\* the dict seen_addresses as its items in insertion order: an address
\* already in the dict keeps its first name
RECURSIVE SeenAddresses(_)
SeenAddresses(data) ==
    IF data = <<>> THEN <<>>
    ELSE LET seen == SeenAddresses(SubSeq(data, 1, Len(data) - 1))
             item == data[Len(data)]
         IN  IF \E k \in 1..Len(seen) : seen[k].address = item.address
             THEN seen ELSE Append(seen, item)

\* a faulty variant: the items are left in insertion order
Sorted_unsorted(items) == items

\* insert item into the sorted sequence s
RECURSIVE Insert(_, _)
Insert(s, item) ==
    IF s = <<>> THEN <<item>>
    ELSE IF ItemLess(item, s[1]) THEN <<item>> \o s
    ELSE <<s[1]>> \o Insert(Tail(s), item)

\* sorted(items)
RECURSIVE Sorted(_)
Sorted(items) ==
    IF items = <<>> THEN <<>>
    ELSE Insert(Sorted(SubSeq(items, 1, Len(items) - 1)), items[Len(items)])

\* lines 163-171 of main
DedupSort(data) == Sorted(SeenAddresses(data))

-----------------------------------------------------------------------------
(* write_addresses: the two file formats                                   *)

QUOTE     == 34    \* csv quotechar
CR        == 13    \* csv lineterminator "\r\n"
LF        == 10
BACKSLASH == 92    \* json escape character

\* a faulty variant: fields are written as they are
CsvField_verbatim(s) == s

\* csv.writer, QUOTE_MINIMAL: a field holding the delimiter, the quote
\* character or a character of the line terminator is quoted, and its
\* quote characters are doubled
CsvField(s) ==
    IF \E k \in 1..Len(s) : s[k] \in {SEMICOLON, QUOTE, CR, LF}
    THEN <<QUOTE>>
         \o Flatten([k \in 1..Len(s) |->
                       IF s[k] = QUOTE THEN <<QUOTE, QUOTE>> ELSE <<s[k]>>])
         \o <<QUOTE>>
    ELSE s

\* writer.writerow([item['address'], item['name']])
CsvRow(item) ==
    CsvField(item.address) \o <<SEMICOLON>> \o CsvField(item.name)
        \o <<CR, LF>>

TxtContent(data) == Flatten([k \in 1..Len(data) |-> CsvRow(data[k])])

HexDigits == <<48, 49, 50, 51, 52, 53, 54, 55, 56, 57,
               97, 98, 99, 100, 101, 102>>

\* json string escapes with ensure_ascii=False
JsonChar(c) ==
    IF c = QUOTE THEN <<BACKSLASH, QUOTE>>
    ELSE IF c = BACKSLASH THEN <<BACKSLASH, BACKSLASH>>
    ELSE IF c = LF THEN <<BACKSLASH, 110>>
    ELSE IF c = CR THEN <<BACKSLASH, 114>>
    ELSE IF c = 9 THEN <<BACKSLASH, 116>>
    ELSE IF c = 8 THEN <<BACKSLASH, 98>>
    ELSE IF c = 12 THEN <<BACKSLASH, 102>>
    ELSE IF c < 32
    THEN <<BACKSLASH, 117, 48, 48,
           HexDigits[(c \div 16) + 1], HexDigits[(c % 16) + 1]>>
    ELSE <<c>>

JsonString(s) ==
    <<QUOTE>> \o Flatten([k \in 1..Len(s) |-> JsonChar(s[k])]) \o <<QUOTE>>

\* one object of the array, at indent 2
JsonItem(item) ==
    <<123, 10, 32, 32, 32, 32, 34, 97, 100, 100, 114, 101, 115, 115, 34,
      58, 32>>
    \o JsonString(item.address)
    \o <<44, 10, 32, 32, 32, 32, 34, 110, 97, 109, 101, 34, 58, 32>>
    \o JsonString(item.name)
    \o <<10, 32, 32, 125>>

\* json.dump(address_data, out, indent=2, ensure_ascii=False)
JsonContent(data) ==
    IF data = <<>> THEN <<91, 93>>
    ELSE <<91, 10, 32, 32>>
         \o Join([k \in 1..Len(data) |-> JsonItem(data[k])], 44)
         \o <<10, 93>>

-----------------------------------------------------------------------------
(* write_addresses                                                         *)

\* The output directory path is in one of four states:
\*   "dir"      it exists and is a directory
\*   "absent"   it does not exist and mkdir(parents=True) creates it
\*   "blocked"  it does not exist and mkdir raises OSError
\*   "notdir"   it exists and is not a directory
OutpathStates == {"dir", "absent", "blocked", "notdir"}

\* a faulty variant: the file name does not depend on the asset
TxtName_shared(asset) == "sanctioned_addresses_" \o ".txt"

TxtName(asset)  == "sanctioned_addresses_" \o asset \o ".txt"
JsonName(asset) == "sanctioned_addresses_" \o asset \o ".json"

FileNames == {TxtName(POSSIBLE_ASSETS[k]) : k \in 1..NumAssets}
             \cup {JsonName(POSSIBLE_ASSETS[k]) : k \in 1..NumAssets}

NoFile == [exists |-> FALSE, content |-> <<>>]

File(content) == [exists |-> TRUE, content |-> content]

\* The result of the call: the new state of the path and of the files, what
\* was printed to the error stream, the exception that left the call (or
\* None) and the names of the files written.
write_addresses(data, asset, output_formats, op, fs) ==
    LET formats == {output_formats[k] : k \in 1..Len(output_formats)}
        names   == (IF "TXT" \in formats THEN {TxtName(asset)} ELSE {})
                   \cup (IF "JSON" \in formats THEN {JsonName(asset)} ELSE {})
        content(n) == IF n = TxtName(asset) THEN TxtContent(data)
                      ELSE JsonContent(data)
    IN  IF op = "blocked"
        THEN [outpath |-> op, files |-> fs,
              err |-> <<[msg |-> "Error creating directory"]>>,
              raised |-> None, wrote |-> {}]
        ELSE IF op = "notdir" /\ names # {}
        THEN [outpath |-> op, files |-> fs, err |-> <<>>,
              raised |-> "OSError", wrote |-> {}]
        ELSE [outpath |-> IF op = "absent" THEN "dir" ELSE op,
              files |-> [n \in FileNames |->
                            IF n \in names THEN File(content(n)) ELSE fs[n]],
              err |-> <<>>, raised |-> None, wrote |-> names]

-----------------------------------------------------------------------------
(* main, one action per step                                               *)

\* parse_arguments: the defaults of the two list arguments.  With no asset
\* on the command line argparse takes the default [POSSIBLE_ASSETS[0]]; some
\* Python versions (3.11 among them) then check that list against choices
\* and end the process with a usage error, status 2.
ParseArguments ==
    /\ pc = "args"
    /\ \/ /\ args' = [assets |-> IF argv.assets = <<>>
                                 THEN <<POSSIBLE_ASSETS[1]>>
                                 ELSE argv.assets,
                      format |-> IF argv.format = <<>>
                                 THEN <<OUTPUT_FORMATS[1]>>
                                 ELSE argv.format]
          /\ pc' = "exists"
          /\ UNCHANGED <<stderr, exit_status>>
       \/ /\ argv.assets = <<>>
          /\ stderr' = Append(stderr, [msg |-> "error: argument assets"])
          /\ exit_status' = 2
          /\ pc' = "exited"
          /\ UNCHANGED args
    /\ UNCHANGED <<argv, sdn, document, outpath, files, root, i, address_id,
                   address_data, stdout, written>>

\* if not args.sdn.exists(): ... sys.exit(1)
CheckInput ==
    /\ pc = "exists"
    /\ IF sdn = "missing"
       THEN /\ stderr' = Append(stderr, [msg |-> "Error: Input file not found"])
            /\ exit_status' = 1
            /\ pc' = "exited"
       ELSE /\ pc' = "parse"
            /\ UNCHANGED <<stderr, exit_status>>
    /\ UNCHANGED <<argv, args, sdn, document, outpath, files, root, i,
                   address_id, address_data, stdout, written>>

\* a faulty variant: a parse failure is not noticed
ParseInput_ignore ==
    /\ pc = "parse"
    /\ root' = document
    /\ i' = 1
    /\ pc' = "resolve"
    /\ UNCHANGED <<argv, args, sdn, document, outpath, files, address_id,
                   address_data, stderr, stdout, exit_status, written>>

\* tree = ET.parse(args.sdn); root = tree.getroot()
ParseInput ==
    /\ pc = "parse"
    /\ IF sdn = "malformed"
       THEN /\ stderr' = Append(stderr, [msg |-> "Failed to parse XML"])
            /\ exit_status' = 1
            /\ pc' = "exited"
            /\ UNCHANGED <<root, i>>
       ELSE /\ root' = document
            /\ i' = 1
            /\ pc' = "resolve"
            /\ UNCHANGED <<stderr, exit_status>>
    /\ UNCHANGED <<argv, args, sdn, document, outpath, files, address_id,
                   address_data, stdout, written>>

\* a faulty variant: a lookup failure ends the run
Resolve_abort ==
    /\ pc = "resolve"
    /\ i <= Len(args.assets)
    /\ LET r == get_address_id(root, args.assets[i])
       IN  IF r.raised # None
           THEN /\ stderr' = Append(stderr, [msg |-> "Warning",
                                             asset |-> args.assets[i]])
                /\ pc' = "exited"
                /\ exit_status' = 1
                /\ UNCHANGED <<i, address_id>>
           ELSE /\ address_id' = r.ID
                /\ pc' = "harvest"
                /\ UNCHANGED <<stderr, i, exit_status>>
    /\ UNCHANGED <<argv, args, sdn, document, outpath, files, root,
                   address_data, stdout, written>>

\* address_id = get_address_id(root, asset), and the except clause
Resolve ==
    /\ pc = "resolve"
    /\ i <= Len(args.assets)
    /\ LET r == get_address_id(root, args.assets[i])
       IN  IF r.raised # None
           THEN /\ stderr' = Append(stderr, [msg |-> "Warning",
                                             asset |-> args.assets[i]])
                /\ i' = i + 1
                /\ UNCHANGED <<pc, address_id>>
           ELSE /\ address_id' = r.ID
                /\ pc' = "harvest"
                /\ UNCHANGED <<stderr, i>>
    /\ UNCHANGED <<argv, args, sdn, document, outpath, files, root,
                   address_data, stdout, exit_status, written>>

\* address_data = get_sanctioned_addresses(root, address_id)
Harvest ==
    /\ pc = "harvest"
    /\ address_data' = get_sanctioned_addresses(root, address_id)
    /\ pc' = "dedup"
    /\ UNCHANGED <<argv, args, sdn, document, outpath, files, root, i,
                   address_id, stderr, stdout, exit_status, written>>

\* lines 163-171
Dedup ==
    /\ pc = "dedup"
    /\ address_data' = DedupSort(address_data)
    /\ pc' = "write"
    /\ UNCHANGED <<argv, args, sdn, document, outpath, files, root, i,
                   address_id, stderr, stdout, exit_status, written>>

\* write_addresses(...) and the print after it; an exception of the call
\* is no LookupError and leaves main
Write ==
    /\ pc = "write"
    /\ LET w == write_addresses(address_data, args.assets[i], args.format,
                                outpath, files)
       IN  /\ outpath' = w.outpath
           /\ files' = w.files
           /\ stderr' = stderr \o w.err
                        \o (IF w.raised # None THEN <<[msg |-> "Traceback"]>>
                            ELSE <<>>)
           /\ written' = Append(written, [iteration |-> i,
                                          asset |-> args.assets[i],
                                          names |-> w.wrote])
           /\ IF w.raised # None
              THEN /\ pc' = "crashed"
                   /\ exit_status' = 1
                   /\ UNCHANGED <<stdout, i>>
              ELSE /\ pc' = "resolve"
                   /\ stdout' = Append(stdout,
                                   [msg |-> "Successfully processed",
                                    count |-> Len(address_data),
                                    asset |-> args.assets[i]])
                   /\ i' = i + 1
                   /\ UNCHANGED exit_status
    /\ UNCHANGED <<argv, args, sdn, document, root, address_id,
                   address_data>>

\* the loop is over: main returns
Finish ==
    /\ pc = "resolve"
    /\ i > Len(args.assets)
    /\ pc' = "done"
    /\ exit_status' = 0
    /\ UNCHANGED <<argv, args, sdn, document, outpath, files, root, i,
                   address_id, address_data, stderr, stdout, written>>

Next ==
    \/ ParseArguments
    \/ CheckInput
    \/ ParseInput
    \/ Resolve
    \/ Harvest
    \/ Dedup
    \/ Write
    \/ Finish

-----------------------------------------------------------------------------
(* Inputs of a run                                                         *)

MaxAssets == 2     \* asset symbols on the command line
MaxRefs   == 2     \* entries of the reference table FeatureTypeValues

RefEntries ==
    [text : {feature_type_text(POSSIBLE_ASSETS[k]) : k \in 1..NumAssets},
     ID   : FeatureTypeIDs \cup {NoID}]

AssetLists == SeqsUpTo({POSSIBLE_ASSETS[k] : k \in 1..NumAssets}, MaxAssets)

\* the values of -f: absent, or one or more formats
FormatLists == {<<>>, <<"TXT">>, <<"JSON">>, <<"TXT", "JSON">>}

\* a party named "J" with addresses of two types, and a nameless party that
\* repeats one of them
SampleParties ==
    << [aliases  |-> AliasesJ,
        features |-> << [FeatureTypeID |-> "344", versions |-> <<<<97>>, <<32>>>>],
                        [FeatureTypeID |-> "345", versions |-> <<<<97>>>>] >>],
       [aliases  |-> <<>>,
        features |-> << [FeatureTypeID |-> "344", versions |-> <<<<97>>>>],
                        [FeatureTypeID |-> "345", versions |-> <<<<>>>>] >>] >>

\* every requested asset resolves / only the first symbol has an entry
FullRefs ==
    [k \in 1..NumAssets |->
        [text |-> feature_type_text(POSSIBLE_ASSETS[k]),
         ID   |-> IF k = 1 THEN "344" ELSE "345"]]

FirstRefs == SubSeq(FullRefs, 1, 1)

NoFiles == [n \in FileNames |-> NoFile]

\* files left by an earlier run: "s"
StaleFiles == [n \in FileNames |-> File(<<115>>)]

InitProcess ==
    /\ stderr = <<>>
    /\ stdout = <<>>
    /\ exit_status = -1
    /\ written = <<>>

InitStart ==
    /\ pc = "args"
    /\ args = [assets |-> <<>>, format |-> <<>>]
    /\ root = None
    /\ i = 0
    /\ address_id = None
    /\ address_data = <<>>
    /\ InitProcess

\* runs that differ in the requested assets and in the reference table
InitArgs ==
    /\ InitStart
    /\ argv \in [assets : AssetLists, format : {<<>>, <<"TXT", "JSON">>}]
    /\ sdn = "ok"
    /\ document \in [refs : SeqsUpTo(RefEntries, MaxRefs),
                     parties : {SampleParties}]
    /\ outpath = "dir"
    /\ files = NoFiles

\* runs that differ in the state of the input file and of the output path
InitEnv ==
    /\ InitStart
    /\ argv \in [assets : AssetLists, format : FormatLists]
    /\ sdn \in {"missing", "malformed", "ok"}
    /\ document \in [refs : {FullRefs, FirstRefs}, parties : {SampleParties}]
    /\ outpath \in OutpathStates
    /\ files \in {NoFiles, StaleFiles}

Init == InitArgs \/ InitEnv

Spec == Init /\ [][Next]_vars

-----------------------------------------------------------------------------
(* get_sanctioned_addresses on its own: main at line 160, for documents    *)
(* deep in one party, wide in parties, or rich in names.                   *)

Party(aliases, features) == [aliases |-> aliases, features |-> features]

\* one party named "J" with up to MaxFeatures features: features of the
\* type "344" with up to MaxVersions values, or the feature of type "345"
\* with the value "a"
DeepParties ==
    {<<Party(AliasesJ, fs)>> :
        fs \in SeqsUpTo([FeatureTypeID : {"344"},
                         versions : SeqsUpTo(VersionTexts, MaxVersions)]
                           \cup {[FeatureTypeID |-> "345",
                                  versions |-> <<<<97>>>>]},
                        MaxFeatures)}

\* up to MaxParties parties, named or not, of at most one single-valued
\* feature each
WideParties ==
    SeqsUpTo({Party(al, fs) :
                 al \in {<<>>, AliasesJ},
                 fs \in SeqsUpTo(Features(1), 1)},
             MaxParties)

\* one party of up to MaxAliases aliases that owns two addresses
NameParties ==
    {<<Party(al, <<[FeatureTypeID |-> "344",
                    versions |-> <<<<97>>, <<32>>>>]>>)>> :
        al \in SeqsUpTo(Aliases, MaxAliases)}

InitMidRun ==
    /\ argv = [assets |-> <<>>, format |-> <<>>]
    /\ args = [assets |-> <<POSSIBLE_ASSETS[1]>>,
               format |-> <<OUTPUT_FORMATS[1]>>]
    /\ sdn = "ok"
    /\ i = 1
    /\ InitProcess

InitHarvest ==
    /\ InitMidRun
    /\ pc = "harvest"
    /\ address_id = "344"
    /\ document \in
          [refs : {<<[text |-> feature_type_text(POSSIBLE_ASSETS[1]),
                      ID |-> "344"]>>},
           parties : DeepParties \cup WideParties \cup NameParties]
    /\ root = document
    /\ address_data = <<>>
    /\ outpath = "dir"
    /\ files = NoFiles

NextHarvest == Harvest

SpecHarvest == InitHarvest /\ [][NextHarvest]_vars

-----------------------------------------------------------------------------
(* Properties of get_sanctioned_addresses and get_entity_name              *)

\* the (party, feature, version) places of the document that hold an
\* address of the type address_id
Places ==
    UNION {UNION {{<<p, f, v>> :
                      v \in {v \in 1..Len(root.parties[p].features[f].versions) :
                                root.parties[p].features[f].versions[v] # <<>>}} :
                  f \in {f \in 1..Len(root.parties[p].features) :
                            root.parties[p].features[f].FeatureTypeID
                               = address_id}} :
           p \in 1..Len(root.parties)}

PlaceBefore(s, t) ==
    \/ s[1] < t[1]
    \/ s[1] = t[1] /\ s[2] < t[2]
    \/ s[1] = t[1] /\ s[2] = t[2] /\ s[3] < t[3]

\* the position of a place in document order
Rank(t) == Cardinality({s \in Places : PlaceBefore(s, t)}) + 1

\* C9: after get_sanctioned_addresses, address_data holds one record for
\* every non-empty version value of every feature tagged address_id under
\* every party and nothing else, in party, feature, version order, each
\* record with the name of the party that owns the value.
HarvestInDocumentOrder ==
    pc = "dedup" =>
        /\ Len(address_data) = Cardinality(Places)
        /\ \A t \in Places :
              address_data[Rank(t)] =
                 [address |-> root.parties[t[1]].features[t[2]].versions[t[3]],
                  name    |-> get_entity_name(root.parties[t[1]])]

\* a party with a two-valued feature of the type asked for and a feature of
\* another type: two records
HarvestWitness ==
    /\ pc = "dedup"
    /\ Len(address_data) = 2
    /\ address_data[1].address # address_data[2].address
    /\ \E p \in 1..Len(root.parties) :
          \E f, g \in 1..Len(root.parties[p].features) :
             /\ root.parties[p].features[f].FeatureTypeID = address_id
             /\ Len(root.parties[p].features[f].versions) = 2
             /\ root.parties[p].features[g].FeatureTypeID # address_id
             /\ root.parties[p].features[g].versions # <<>>
             /\ root.parties[p].features[g].versions[1] # <<>>

\* characters str.strip() removes (those below 256)
WhitespaceChars == {9, 10, 11, 12, 13, 28, 29, 30, 31, 32, 133, 160}

\* C4: every emitted record's address holds a character that is no
\* whitespace.
NoBlankAddress ==
    pc = "dedup" =>
        \A k \in 1..Len(address_data) :
            \E c \in 1..Len(address_data[k].address) :
                address_data[k].address[c] \notin WhitespaceChars

\* the name parts of alias from position k on, joined by single spaces
RECURSIVE SpaceJoined(_, _)
SpaceJoined(alias, k) ==
    IF k > Len(alias) THEN <<>>
    ELSE LET rest == SpaceJoined(alias, k + 1)
         IN  IF alias[k] = <<>> THEN rest
             ELSE IF rest = <<>> THEN alias[k]
             ELSE alias[k] \o <<32>> \o rest

\* the assembled names of a party's aliases
AssembledNames(party) ==
    {SpaceJoined(party.aliases[k], 1) : k \in 1..Len(party.aliases)} \ {<<>>}

\* the first alias that assembles to name
FirstSeen(party, name) ==
    CHOOSE k \in 1..Len(party.aliases) :
        /\ SpaceJoined(party.aliases[k], 1) = name
        /\ \A j \in 1..(k - 1) : SpaceJoined(party.aliases[j], 1) # name

\* the assembled names, each once, in first-seen order
UniqueNames(party) ==
    LET N == AssembledNames(party)
    IN  CHOOSE u \in [1..Cardinality(N) -> N] :
            \A j, k \in 1..Cardinality(N) :
                j < k => FirstSeen(party, u[j]) < FirstSeen(party, u[k])

\* u[k], u[k+1], ... with a semicolon between two names
RECURSIVE SemicolonJoined(_, _)
SemicolonJoined(u, k) ==
    IF k > Len(u) THEN <<>>
    ELSE IF k = Len(u) THEN u[k]
    ELSE u[k] \o <<59>> \o SemicolonJoined(u, k + 1)

\* the name of a party is its unique assembled names joined by ';', and
\* "Unknown" when it has none
NameAssembled(party) ==
    IF AssembledNames(party) = {}
    THEN get_entity_name(party) = Unknown
    ELSE get_entity_name(party) = SemicolonJoined(UniqueNames(party), 1)

\* every record carries the name of a party that owns its address
RecordsCarryName ==
    pc = "dedup" =>
        \A k \in 1..Len(address_data) :
            \E t \in Places :
                /\ address_data[k].address =
                      root.parties[t[1]].features[t[2]].versions[t[3]]
                /\ address_data[k].name = get_entity_name(root.parties[t[1]])

-----------------------------------------------------------------------------
(* Harvest and deduplication: main at lines 160-171, for documents whose   *)
(* parties each own one address, so that addresses repeat under parties of *)
(* different names and in any order.                                       *)

\* addresses " ", "a", "ab"
AddressTexts == {<<32>>, <<97>>, <<97, 98>>}

SingleAddressParties ==
    SeqsUpTo({Party(al, <<[FeatureTypeID |-> "344", versions |-> <<a>>]>>) :
                 al \in {<<>>, AliasesJ}, a \in AddressTexts},
             MaxParties)

InitDedup ==
    /\ InitMidRun
    /\ pc = "harvest"
    /\ address_id = "344"
    /\ document \in
          [refs : {<<[text |-> feature_type_text(POSSIBLE_ASSETS[1]),
                      ID |-> "344"]>>},
           parties : SingleAddressParties]
    /\ root = document
    /\ address_data = <<>>
    /\ outpath = "dir"
    /\ files = NoFiles

NextDedup ==
    \/ Harvest
    \/ Dedup

SpecDedup == InitDedup /\ [][NextDedup]_vars

\* ordinal string order: at the first position where s and t differ, s has
\* ended or holds the smaller code point
OrdinalLess(s, t) ==
    \E k \in 1..(Len(t)) :
        /\ k <= Len(s) + 1
        /\ \A j \in 1..(k - 1) : s[j] = t[j]
        /\ k = Len(s) + 1 \/ s[k] < t[k]

\* C1: the record list main passes to write_addresses has its addresses in
\* strictly ascending ordinal string order, so no address occurs twice.
OutputStrictlyAscending ==
    pc = "write" =>
        /\ \A k \in 1..(Len(address_data) - 1) :
              OrdinalLess(address_data[k].address, address_data[k + 1].address)
        /\ \A j, k \in 1..Len(address_data) :
              address_data[j].address = address_data[k].address => j = k

\* three records were harvested out of order, one address twice
AscendingWitness ==
    /\ pc = "write"
    /\ Len(address_data) = 2
    /\ LET harvested == get_sanctioned_addresses(root, address_id)
       IN  /\ Len(harvested) = 3
           /\ harvested[1].address = harvested[3].address
           /\ OrdinalLess(harvested[2].address, harvested[1].address)

\* C2: every harvested address is in the output exactly once, with the
\* name of its first harvested record, and the output holds nothing else.
FirstNameKept ==
    pc = "write" =>
        LET harvested == get_sanctioned_addresses(root, address_id)
        IN  /\ \A j \in 1..Len(harvested) :
                  /\ Cardinality({k \in 1..Len(address_data) :
                        address_data[k].address = harvested[j].address}) = 1
                  /\ (\A h \in 1..(j - 1) :
                         harvested[h].address # harvested[j].address)
                     => \E k \in 1..Len(address_data) :
                           address_data[k] = harvested[j]
            /\ \A k \in 1..Len(address_data) :
                  \E j \in 1..Len(harvested) :
                     address_data[k].address = harvested[j].address

\* an address was harvested under two parties of different names
FirstNameWitness ==
    /\ pc = "write"
    /\ LET harvested == get_sanctioned_addresses(root, address_id)
       IN  \E j, k \in 1..Len(harvested) :
              /\ j < k
              /\ harvested[j].address = harvested[k].address
              /\ harvested[j].name # harvested[k].name
              /\ \E n \in 1..Len(address_data) : address_data[n] = harvested[j]

-----------------------------------------------------------------------------
(* Properties of a whole run (Spec)                                        *)

\* an output file this run has not written: absent, or left by an earlier
\* run
Untouched(n) == files[n] = NoFile \/ files[n] = StaleFiles[n]

Resolves(asset) == get_address_id(root, asset).raised = None

\* the record list main writes for an asset that resolves
RecordsOf(asset) ==
    DedupSort(get_sanctioned_addresses(root, get_address_id(root, asset).ID))

\* the loop iterations that reached write_addresses
Iterations == {written[k].iteration : k \in 1..Len(written)}

HasFormat(fmt) == \E f \in 1..Len(args.format) : args.format[f] = fmt

Warned(asset) ==
    \E k \in 1..Len(stderr) : stderr[k] = [msg |-> "Warning", asset |-> asset]

\* C3: an asset without a matching reference entry gets a warning and no
\* file, and does not stop the loop: when main returns, with status 0,
\* every requested asset that resolves has been harvested and handed to
\* write_addresses, before and after the unresolved one, and the run never
\* ends abnormally at an unresolved asset nor exits after a warning.
UnresolvedAssetSkipped ==
    /\ pc = "done" =>
          /\ exit_status = 0
          /\ \A k \in 1..Len(args.assets) :
                IF Resolves(args.assets[k])
                THEN /\ k \in Iterations
                     /\ outpath = "dir" =>
                           /\ IF HasFormat("TXT")
                              THEN files[TxtName(args.assets[k])] =
                                      File(TxtContent(RecordsOf(args.assets[k])))
                              ELSE Untouched(TxtName(args.assets[k]))
                           /\ IF HasFormat("JSON")
                              THEN files[JsonName(args.assets[k])] =
                                      File(JsonContent(RecordsOf(args.assets[k])))
                              ELSE Untouched(JsonName(args.assets[k]))
                ELSE /\ k \notin Iterations
                     /\ Warned(args.assets[k])
                     /\ Untouched(TxtName(args.assets[k]))
                     /\ Untouched(JsonName(args.assets[k]))
    /\ pc = "crashed" => Resolves(args.assets[i])
    /\ pc = "exited" => \A k \in 1..Len(stderr) : stderr[k].msg # "Warning"
    /\ (pc = "resolve" /\ i <= Len(args.assets)) =>
          \A k \in 1..(i - 1) :
             ~Resolves(args.assets[k]) => Warned(args.assets[k])

\* main returned after an unresolved asset between two that resolve, or
\* before or after one, with the files of the others written
UnresolvedWitness ==
    /\ pc = "done"
    /\ Len(args.assets) >= 2
    /\ ~Resolves(args.assets[1])
    /\ Resolves(args.assets[2])
    /\ files[TxtName(args.assets[2])].exists
    /\ ~files[TxtName(args.assets[1])].exists

\* C6: when the input file is missing or does not parse, the run ends with
\* a non-zero status before any asset is resolved: it never enters the
\* loop, writes no file, and stops only at the exit.
InputFailureIsFatal ==
    sdn # "ok" =>
        /\ pc \in {"args", "exists", "parse", "exited"}
        /\ written = <<>>
        /\ \A n \in FileNames : Untouched(n)
        /\ pc = "exited" => exit_status # 0 /\ Len(stderr) = 1
        /\ pc # "exited" => ENABLED Next

\* the run ended on an input file that exists and does not parse, with
\* files of an earlier run in place
InputFailureWitness ==
    /\ pc = "exited"
    /\ sdn = "malformed"
    /\ files = StaleFiles
    /\ exit_status = 1

\* C7: when the output directory cannot be created or used, the error is
\* reported, no file is written and the run goes on with the next asset:
\* it never ends in write_addresses.
DirectoryFailureSkipsAsset ==
    /\ pc # "crashed"
    /\ outpath \in {"blocked", "notdir"} =>
          /\ \A n \in FileNames : Untouched(n)
          /\ \A k \in 1..Len(written) : written[k].names = {}
          /\ Len(written) > 0 =>
                \E k \in 1..Len(stderr) :
                    stderr[k] = [msg |-> "Error creating directory"]

-----------------------------------------------------------------------------
(* Harvest, deduplication and writing: main at lines 160-173, for          *)
(* documents whose names and addresses hold the characters the file        *)
(* formats treat specially.                                                *)

\* name parts "J", '"', "J\nD" and "a;b"
SpecialNameParts == {<<74>>, <<34>>, <<74, 10, 68>>, <<97, 59, 98>>}

\* addresses "a", ";", '"b' and "c\r"
SpecialAddressTexts == {<<97>>, <<59>>, <<34, 98>>, <<99, 13>>}

\* a party of up to MaxAliases one-part aliases that owns one address,
\* alone or followed by the party "J" that owns the address "a"
SpecialParties ==
    LET first == {Party(al, <<[FeatureTypeID |-> "344", versions |-> <<a>>]>>) :
                     al \in SeqsUpTo({<<t>> : t \in SpecialNameParts}, MaxAliases),
                     a \in SpecialAddressTexts}
        second == Party(AliasesJ, <<[FeatureTypeID |-> "344",
                                     versions |-> <<<<97>>>>]>>)
    IN  {<<p>> : p \in first} \cup {<<p, second>> : p \in first}

InitWrite ==
    /\ argv = [assets |-> <<>>, format |-> <<>>]
    /\ args \in [assets : {<<POSSIBLE_ASSETS[1]>>},
                 format : FormatLists \ {<<>>}]
    /\ sdn = "ok"
    /\ i = 1
    /\ InitProcess
    /\ pc = "harvest"
    /\ address_id = "344"
    /\ document \in
          [refs : {<<[text |-> feature_type_text(POSSIBLE_ASSETS[1]),
                      ID |-> "344"]>>},
           parties : SpecialParties]
    /\ root = document
    /\ address_data = <<>>
    /\ outpath \in {"dir", "absent"}
    /\ files = NoFiles

NextWrite ==
    \/ Harvest
    \/ Dedup
    \/ Write

SpecWrite == InitWrite /\ [][NextWrite]_vars

\* A reader of semicolon-separated text with double-quoted fields, as
\* csv.reader(delimiter=';'): the rows of the text s from position k on,
\* where mode is "field" (in an unquoted field), "quoted" (in a quoted
\* field), "quote" (after a quote character in a quoted field) or "eol"
\* (after a carriage return that ended a row), field is the text of the
\* field being read and row holds the fields read before it.
RECURSIVE CsvRead(_, _, _, _, _)
CsvRead(s, k, mode, field, row) ==
    IF k > Len(s)
    THEN IF mode = "eol" \/ (row = <<>> /\ field = <<>> /\ mode = "field")
         THEN <<>> ELSE <<Append(row, field)>>
    ELSE LET c == s[k]
         IN  IF mode = "eol"
             THEN IF c = 10 THEN CsvRead(s, k + 1, "field", <<>>, <<>>)
                  ELSE CsvRead(s, k, "field", <<>>, <<>>)
             ELSE IF mode = "quoted"
             THEN IF c = 34 THEN CsvRead(s, k + 1, "quote", field, row)
                  ELSE CsvRead(s, k + 1, "quoted", Append(field, c), row)
             ELSE IF mode = "quote" /\ c = 34
             THEN CsvRead(s, k + 1, "quoted", Append(field, c), row)
             ELSE IF c = 59
             THEN CsvRead(s, k + 1, "field", <<>>, Append(row, field))
             ELSE IF c = 13
             THEN <<Append(row, field)>> \o CsvRead(s, k + 1, "eol", <<>>, <<>>)
             ELSE IF c = 10
             THEN <<Append(row, field)>> \o CsvRead(s, k + 1, "field", <<>>, <<>>)
             ELSE IF c = 34 /\ mode = "field" /\ field = <<>>
             THEN CsvRead(s, k + 1, "quoted", <<>>, row)
             ELSE CsvRead(s, k + 1, "field", Append(field, c), row)

\* the text of a JSON string literal with escapes \" \\ \n \r \t undone
RECURSIVE JsonUnescape(_)
JsonUnescape(raw) ==
    IF raw = <<>> THEN <<>>
    ELSE IF raw[1] = 92
    THEN LET e == raw[2]
             d == IF e = 110 THEN 10
                  ELSE IF e = 114 THEN 13
                  ELSE IF e = 116 THEN 9
                  ELSE e
         IN  <<d>> \o JsonUnescape(SubSeq(raw, 3, Len(raw)))
    ELSE <<raw[1]>> \o JsonUnescape(Tail(raw))

\* the positions of the double quotes of s that delimit a string literal:
\* those after an even number of backslashes
JsonQuotes(s) ==
    {k \in 1..Len(s) :
        /\ s[k] = 34
        /\ Cardinality({j \in 1..(k - 1) :
                           \A m \in j..(k - 1) : s[m] = 92}) % 2 = 0}

\* the n-th smallest element of a set of numbers
Nth(S, n) == CHOOSE x \in S : Cardinality({y \in S : y < x}) = n - 1

\* A reader of the string literals of a JSON text, in order
JsonStrings(s) ==
    LET Q == JsonQuotes(s)
    IN  [n \in 1..(Cardinality(Q) \div 2) |->
            JsonUnescape(SubSeq(s, Nth(Q, 2 * n - 1) + 1, Nth(Q, 2 * n) - 1))]

\* the (address, name) pairs of the record list
Pairs(data) == [k \in 1..Len(data) |-> <<data[k].address, data[k].name>>]

\* the pairs a JSON text of the array denotes: the values of the keys
\* "address" and "name" of its objects
JsonPairs(s) ==
    LET strs == JsonStrings(s)
    IN  [k \in {k \in 1..(Len(strs) \div 4) :
                   /\ strs[4 * k - 3] = <<97, 100, 100, 114, 101, 115, 115>>
                   /\ strs[4 * k - 1] = <<110, 97, 109, 101>>}
            |-> <<strs[4 * k - 2], strs[4 * k]>>]

Wrote(n) == Len(written) > 0 /\ n \in written[Len(written)].names

\* C8 as stated: the TXT file holds, record after record, the address, one
\* semicolon, the name unchanged and the end of the line.
TxtLinesVerbatim ==
    Wrote(TxtName(args.assets[1])) =>
        files[TxtName(args.assets[1])].content =
            Flatten([k \in 1..Len(address_data) |->
                        address_data[k].address \o <<59>>
                           \o address_data[k].name \o <<13, 10>>])

\* C8 amended: the TXT file holds one row per record, in record order and
\* with no header, that reads back as the record's address and name, and
\* a record whose address and name hold no semicolon, double quote,
\* carriage return or line feed is written as address, semicolon, name; the
\* JSON array denotes the same pairs.
TxtRowsReadBack ==
    /\ Wrote(TxtName(args.assets[1])) =>
          /\ CsvRead(files[TxtName(args.assets[1])].content, 1, "field",
                     <<>>, <<>>) = Pairs(address_data)
          /\ \A k \in 1..Len(address_data) :
                (\A c \in {59, 34, 13, 10} :
                    /\ \A j \in 1..Len(address_data[k].address) :
                          address_data[k].address[j] # c
                    /\ \A j \in 1..Len(address_data[k].name) :
                          address_data[k].name[j] # c)
                => CsvRow(address_data[k]) =
                      address_data[k].address \o <<59>>
                         \o address_data[k].name \o <<13, 10>>
    /\ Wrote(JsonName(args.assets[1])) =>
          JsonPairs(files[JsonName(args.assets[1])].content)
             = Pairs(address_data)

\* both files were written for two records, one of them with a name made
\* of two aliases
TxtWitness ==
    /\ pc = "resolve"
    /\ Wrote(TxtName(args.assets[1]))
    /\ Wrote(JsonName(args.assets[1]))
    /\ Len(address_data) = 2
    /\ \E k \in 1..2 : address_data[k].name = <<74, 59, 34>>

=============================================================================
